---- MODULE Spec2Model ----
(***************************************************************************)
(* Two browser demos of the repository:                                    *)
(*   - the chat-simulator, src/examples/chat-simulator/app.js              *)
(*   - the preset demo, the script embedded in src/unnamed/part_001        *)
(* Each page is single-threaded: an event handler or a timer callback runs *)
(* to its next await (or to its end) before anything else runs, so every   *)
(* action below is one such run.  Texts are sequences of tokens.  In the   *)
(* chat-simulator a token is a keyword, a canned sentence or a filler      *)
(* (the Thai keywords are written in transliteration); in the preset demo  *)
(* a token is one character or one canned fragment.                        *)
(***************************************************************************)
EXTENDS Integers, Sequences, FiniteSets

VARIABLES
    localStorage,   \* the browser's key-value store: key -> value or Absent
    storeMode,      \* "ok", "nowrite" (setItem throws), "noaccess" (all throw)
    state,          \* app.js: state {theme, history, isBotTyping}
    chat,           \* app.js: the children of #chat, in document order
    timers,         \* app.js: botReply activations suspended at their await
    page,           \* app.js: "loading", "ready" (init ran), "failed" (init threw);
                    \*         "closed" when the other page is the open one
    sent,           \* app.js: one record per handleUserSend call: its input, whether no
                    \* reply was being composed, the theme before and after (history)
    clicks,         \* app.js: the key of each script-button click (history variable)
    pstate,         \* part_001: state {preset, theme, messages}
    messagesEl,     \* part_001: the children of #messages, in document order
    replies,        \* part_001: simulateBotReply activations suspended at an await
    ppage,          \* part_001: "loading", "ready" (initEvents and boot ran);
                    \*           "closed" when the other page is the open one
    submits,        \* part_001: number of submits of #composer so far
    requested,      \* part_001: the last arguments of setTheme and setPreset (history)
    arg             \* the argument of the function under test in the harnesses

vars == <<localStorage, storeMode, state, chat, timers, page, sent, clicks,
          pstate, messagesEl, replies, ppage, submits, requested, arg>>

chatVars == <<state, chat, timers, page, sent, clicks>>
presetVars == <<pstate, messagesEl, replies, ppage, submits, requested>>

\* ------------------------------------------------------------------ bounds

MaxRequests == 2
MaxSubmits == 2
MaxTextLen == 60
MaxEscLen == 4

\* ------------------------------------------------------- generic helpers

Absent == "<absent>"

Max(a, b) == IF a >= b THEN a ELSE b
Min(a, b) == IF a <= b THEN a ELSE b

RECURSIVE Flatten(_)
Flatten(ss) == IF ss = <<>> THEN <<>> ELSE Head(ss) \o Flatten(Tail(ss))

Indices(s, P(_)) == {i \in 1..Len(s) : P(s[i])}

\* String.prototype.trim: drop leading and trailing whitespace
RECURSIVE TrimLeft(_)
TrimLeft(s) == IF s /= <<>> /\ Head(s) = " " THEN TrimLeft(Tail(s)) ELSE s

RECURSIVE TrimRight(_)
TrimRight(s) ==
    IF s /= <<>> /\ s[Len(s)] = " " THEN TrimRight(SubSeq(s, 1, Len(s) - 1)) ELSE s

Trim(s) == TrimRight(TrimLeft(s))

\* String.prototype.includes, at token granularity
Includes(s, tok) == \E i \in 1..Len(s) : s[i] = tok

\* String.prototype.toLowerCase: only Latin letters have case
LowerTok(tok) == IF tok = "A" THEN "a" ELSE tok
ToLowerCase(s) == [i \in 1..Len(s) |-> LowerTok(s[i])]

\* -------------------------------------------------------- localStorage

\* getItem: the value, or null (Absent); Threw when the store cannot be read
Threw == "<threw>"
GetItem(ls, mode, key) == IF mode = "noaccess" THEN Threw ELSE ls[key]

\* JavaScript's (getItem(key) || dflt)
OrDefault(v, dflt) == IF v = Absent THEN dflt ELSE v

\* ================================================================ app.js
\* ------------------------------------------------------------- the texts

\* JavaScript length of each token (UTF-16 code units of the source's strings)
TokLen(tok) ==
    CASE tok = "raka" -> 4          \* line 111, first pricing keyword
      [] tok = "thaorai" -> 8       \* line 111, second pricing keyword
      [] tok = "chuai" -> 4         \* line 115, first help keyword
      [] tok = "yangrai" -> 7       \* line 115, second help keyword
      [] tok = "muet" -> 3          \* line 119, "dark"
      [] tok = "sawang" -> 5        \* line 119, "light"
      [] tok = "pricing_reply" -> 63
      [] tok = "help_reply" -> 55
      [] tok = "theme_reply" -> 19
      [] tok = "fallback0" -> 38
      [] tok = "fallback1" -> 47
      [] tok = "fallback2" -> 35
      [] tok = "greeting" -> 34
      [] tok = "intro0" -> 45
      [] tok = "intro1" -> 27
      [] tok = "intro2" -> 58
      [] tok = "faq0" -> 23
      [] tok = "faq1" -> 90
      [] tok = "handoff0" -> 24
      [] tok = "handoff1" -> 49
      [] OTHER -> 1

RECURSIVE TextLength(_)
TextLength(text) ==
    IF text = <<>> THEN 0 ELSE TokLen(Head(text)) + TextLength(Tail(text))

PricingReply == <<"pricing_reply">>
HelpReply == <<"help_reply">>
ThemeReply == <<"theme_reply">>
fallbacks == << <<"fallback0">>, <<"fallback1">>, <<"fallback2">> >>
Greeting == <<"greeting">>

Turn(role, text) == [role |-> role, text |-> text]

ScriptKeys == {"intro", "faq", "handoff"}

\* scripts[key] || []
scripts(key) ==
    CASE key = "intro" ->
            << Turn("bot", <<"intro0">>), Turn("user", <<"intro1">>),
               Turn("bot", <<"intro2">>) >>
      [] key = "faq" -> << Turn("user", <<"faq0">>), Turn("bot", <<"faq1">>) >>
      [] key = "handoff" ->
            << Turn("user", <<"handoff0">>), Turn("bot", <<"handoff1">>) >>
      [] OTHER -> <<>>

\* ------------------------------------------------------ the chat's nodes

\* who asked for a node: the n-th send, step `step` of the n-th click, or init
Src(by, n, step) == [by |-> by, n |-> n, step |-> step]

MessageEl(role, text, src) ==
    [kind |-> "message", role |-> role, text |-> text, src |-> src]
TypingEl(src) ==
    [kind |-> "typing", role |-> "bot", text |-> <<>>, src |-> src]

\* the synchronous code runs on a machine m: what it reads and writes
Machine(st, ch, tm, ls) ==
    [state |-> st, chat |-> ch, timers |-> tm, localStorage |-> ls, threw |-> FALSE]

\* ---------------------------------------------------------- the functions

\* applyTheme: state.theme is assigned before setItem, which throws unless the
\* store can be written (the class of the root element is display only)
applyTheme(m, theme) ==
    LET m1 == [m EXCEPT !.state.theme = theme]
    IN  IF storeMode = "ok"
        THEN [m1 EXCEPT !.localStorage["theme"] = theme]
        ELSE [m1 EXCEPT !.threw = TRUE]

toggleTheme(m) == applyTheme(m, IF m.state.theme = "dark" THEN "light" ELSE "dark")

appendMessage(m, role, text, src) ==
    [m EXCEPT !.chat = Append(@, MessageEl(role, text, src))]

appendTyping(m, src) == [m EXCEPT !.chat = Append(@, TypingEl(src))]

\* Element.remove(): detach the node if it is attached
RemoveEl(ch, node) ==
    LET keep == {i \in 1..Len(ch) : ch[i] /= node}
        F[i \in 0..Len(ch)] ==
            IF i = 0 THEN <<>>
            ELSE IF i \in keep THEN Append(F[i - 1], ch[i]) ELSE F[i - 1]
    IN  F[Len(ch)]

\* mutant of delay: the lower bound of the clamp forgotten
delayNoFloor(text) == Min(2000, TextLength(text) * 40)

delay(text) == Min(2000, Max(600, TextLength(text) * 40))

NoCont == [key |-> "<none>", next |-> 0]

\* mutant of botReply: the isBotTyping guard forgotten
botReplyNoGuard(m, text, src, cont) ==
    LET m1 == appendTyping([m EXCEPT !.state.isBotTyping = TRUE], src)
    IN  [m1 EXCEPT !.timers = @ \cup
            {[typingEl |-> TypingEl(src), text |-> text, delay |-> delay(text),
              src |-> src, cont |-> cont]}]

\* botReply up to its await: returns at once when a reply is being typed
botReply(m, text, src, cont) ==
    IF m.state.isBotTyping THEN m
    ELSE LET m1 == appendTyping([m EXCEPT !.state.isBotTyping = TRUE], src)
         IN  [m1 EXCEPT !.timers = @ \cup
                 {[typingEl |-> TypingEl(src), text |-> text, delay |-> delay(text),
                   src |-> src, cont |-> cont]}]

\* mutant of botReplyResume: the typing indicator left in the list
botReplyResumeKeepTyping(m, t) ==
    LET m1 == [m EXCEPT !.timers = @ \ {t}]
        m2 == appendMessage(m1, "bot", t.text, t.src)
    IN  [m2 EXCEPT !.state.isBotTyping = FALSE]

\* mutant of botReplyResume: isBotTyping left set
botReplyResumeKeepFlag(m, t) ==
    LET m1 == [m EXCEPT !.chat = RemoveEl(@, t.typingEl), !.timers = @ \ {t}]
    IN  appendMessage(m1, "bot", t.text, t.src)

\* botReply after its await, for the activation t
botReplyResume(m, t) ==
    LET m1 == [m EXCEPT !.chat = RemoveEl(@, t.typingEl), !.timers = @ \ {t}]
        m2 == appendMessage(m1, "bot", t.text, t.src)
    IN  [m2 EXCEPT !.state.isBotTyping = FALSE]

\* mutant of Category: the theme keywords tested first
CategoryThemeFirst(lower) ==
    IF Includes(lower, "muet") \/ Includes(lower, "sawang") THEN "theme"
    ELSE IF Includes(lower, "raka") \/ Includes(lower, "thaorai") THEN "pricing"
    ELSE IF Includes(lower, "chuai") \/ Includes(lower, "yangrai") THEN "help"
    ELSE "fallback"

\* the category of the canned logic, tested in the order of the code
Category(lower) ==
    IF Includes(lower, "raka") \/ Includes(lower, "thaorai") THEN "pricing"
    ELSE IF Includes(lower, "chuai") \/ Includes(lower, "yangrai") THEN "help"
    ELSE IF Includes(lower, "muet") \/ Includes(lower, "sawang") THEN "theme"
    ELSE "fallback"

\* mutant of handleUserSend: the input is not trimmed
handleUserSendNoTrim(m, raw, k, src) ==
    IF raw = <<>> THEN m
    ELSE
      LET m1 == [appendMessage(m, "user", raw, src)
                    EXCEPT !.state.history = Append(@, Turn("user", raw))]
          cat == Category(ToLowerCase(raw))
      IN  CASE cat = "pricing" -> botReply(m1, PricingReply, src, NoCont)
            [] cat = "help" -> botReply(m1, HelpReply, src, NoCont)
            [] cat = "theme" ->
                  LET m2 == toggleTheme(m1)
                  IN  IF m2.threw THEN m2 ELSE botReply(m2, ThemeReply, src, NoCont)
            [] OTHER -> botReply(m1, fallbacks[k], src, NoCont)

\* mutant of handleUserSend: the theme is toggled only when the reply is not
\* going to be dropped
handleUserSendToggleWithReply(m, raw, k, src) ==
    LET text == Trim(raw) IN
    IF text = <<>> THEN m
    ELSE
      LET m1 == [appendMessage(m, "user", text, src)
                    EXCEPT !.state.history = Append(@, Turn("user", text))]
          cat == Category(ToLowerCase(text))
      IN  CASE cat = "pricing" -> botReply(m1, PricingReply, src, NoCont)
            [] cat = "help" -> botReply(m1, HelpReply, src, NoCont)
            [] cat = "theme" ->
                  IF m1.state.isBotTyping THEN m1
                  ELSE LET m2 == toggleTheme(m1)
                       IN  IF m2.threw THEN m2 ELSE botReply(m2, ThemeReply, src, NoCont)
            [] OTHER -> botReply(m1, fallbacks[k], src, NoCont)

\* handleUserSend(raw); k is Math.floor(Math.random() * fallbacks.length) + 1
handleUserSend(m, raw, k, src) ==
    LET text == Trim(raw) IN
    IF text = <<>> THEN m
    ELSE
      LET m1 == [appendMessage(m, "user", text, src)
                    EXCEPT !.state.history = Append(@, Turn("user", text))]
          cat == Category(ToLowerCase(text))
      IN  CASE cat = "pricing" -> botReply(m1, PricingReply, src, NoCont)
            [] cat = "help" -> botReply(m1, HelpReply, src, NoCont)
            [] cat = "theme" ->
                  LET m2 == toggleTheme(m1)
                  IN  IF m2.threw THEN m2 ELSE botReply(m2, ThemeReply, src, NoCont)
            [] OTHER -> botReply(m1, fallbacks[k], src, NoCont)

\* the script button's handler from step i on, up to its next real await
RECURSIVE playScript(_, _, _, _)
playScript(m, key, n, i) ==
    LET steps == scripts(key) IN
    IF i > Len(steps) THEN m
    ELSE IF steps[i].role = "user"
         THEN playScript(appendMessage(m, "user", steps[i].text, Src("script", n, i)),
                         key, n, i + 1)
         ELSE IF m.state.isBotTyping
              THEN playScript(botReply(m, steps[i].text, Src("script", n, i), NoCont),
                              key, n, i + 1)
              ELSE botReply(m, steps[i].text, Src("script", n, i),
                            [key |-> key, next |-> i + 1])

\* init(): applyTheme, the greeting, wireEvents
init(m) ==
    LET m1 == applyTheme(m, m.state.theme)
    IN  IF m1.threw THEN m1 ELSE appendMessage(m1, "bot", Greeting, Src("init", 0, 0))

\* ------------------------------------------------- the page and its events

\* what the user can type into #message
Inputs ==
    { <<>>, <<" ">>, <<" ", "A", " ">>, <<"raka", "sawang">>, <<"thaorai", "chuai">>,
      <<"yangrai", "muet">>, <<"sawang">>, <<"muet", "raka">> }

\* what the store can hold under the key theme when the page loads
StoredThemes == {Absent, "light", "sepia"}

StoreKeys == {"theme", "chat_theme", "chat_preset"}

PresetIdle ==
    /\ pstate = [preset |-> "friendly", theme |-> "dark", messages |-> <<>>]
    /\ messagesEl = <<>>
    /\ replies = {}
    /\ ppage = "closed"
    /\ submits = 0
    /\ requested = [theme |-> Absent, preset |-> Absent]

\* app.js evaluated: lines 4-8 built state from the store.  A store that cannot
\* be read makes line 5 throw, and then no state is built and no handler is ever
\* installed: the page has no behaviour to model.
Init ==
    /\ storeMode \in {"ok", "nowrite"}
    /\ \E v \in StoredThemes :
          /\ localStorage = [k \in StoreKeys |-> IF k = "theme" THEN v ELSE Absent]
          /\ state = [theme |-> OrDefault(v, "dark"), history |-> <<>>,
                      isBotTyping |-> FALSE]
    /\ chat = <<>>
    /\ timers = {}
    /\ page = "loading"
    /\ sent = <<>>
    /\ clicks = <<>>
    /\ PresetIdle
    /\ arg = <<>>

Here == Machine(state, chat, timers, localStorage)

\* the machine's state becomes the page's
Becomes(m) ==
    /\ state' = m.state
    /\ chat' = m.chat
    /\ timers' = m.timers
    /\ localStorage' = m.localStorage

Snapshot(m) == [theme |-> m.state.theme, stored |-> m.localStorage["theme"]]

\* DOMContentLoaded: init
PageInit ==
    /\ page = "loading"
    /\ LET m == init(Here)
       IN  /\ Becomes(m)
           /\ page' = IF m.threw THEN "failed" ELSE "ready"
    /\ UNCHANGED <<storeMode, sent, clicks, presetVars, arg>>

\* submit of #composer (the send button, or Enter in #message)
Send ==
    /\ page = "ready"
    /\ Len(sent) + Len(clicks) < MaxRequests
    /\ \E raw \in Inputs, k \in 1..Len(fallbacks) :
          LET m == handleUserSend(Here, raw, k, Src("send", Len(sent) + 1, 0))
          IN  /\ Becomes(m)
              /\ sent' = Append(sent, [raw |-> raw, idle |-> timers = {},
                                       before |-> Snapshot(Here), after |-> Snapshot(m)])
    /\ UNCHANGED <<storeMode, page, clicks, presetVars, arg>>

\* click on #themeToggle
ThemeToggle ==
    /\ page = "ready"
    /\ Becomes(toggleTheme(Here))
    /\ UNCHANGED <<storeMode, page, sent, clicks, presetVars, arg>>

\* click on a button of #scriptList
ScriptClick ==
    /\ page = "ready"
    /\ Len(sent) + Len(clicks) < MaxRequests
    /\ \E key \in ScriptKeys \cup {"other"} :
          /\ Becomes(playScript(Here, key, Len(clicks) + 1, 1))
          /\ clicks' = Append(clicks, key)
    /\ UNCHANGED <<storeMode, page, sent, presetVars, arg>>

\* the timer of a suspended botReply expires; the script that awaited it goes on
TimerFire ==
    /\ \E t \in timers :
          LET m == botReplyResume(Here, t)
          IN  Becomes(IF t.cont = NoCont THEN m
                      ELSE playScript(m, t.cont.key, t.src.n, t.cont.next))
    /\ UNCHANGED <<storeMode, page, sent, clicks, presetVars, arg>>

Next == PageInit \/ Send \/ ThemeToggle \/ ScriptClick \/ TimerFire

Spec == Init /\ [][Next]_vars

\* the callback of a running setTimeout is eventually called
FairSpec == Spec /\ WF_vars(TimerFire)

\* ============================================================== part_001
\* ------------------------------------------------------------ the texts

\* String.prototype.replaceAll(ch, rep) for a one-character pattern
ReplaceAll(text, ch, rep) ==
    Flatten([i \in 1..Len(text) |-> IF text[i] = ch THEN rep ELSE <<text[i]>>])

\* mutant of escapeHtml: "&" replaced last
escapeHtmlAmpLast(text) ==
    ReplaceAll(ReplaceAll(ReplaceAll(text, "<", <<"&", "l", "t", ";">>),
                          ">", <<"&", "g", "t", ";">>),
               "&", <<"&", "a", "m", "p", ";">>)

escapeHtml(text) ==
    ReplaceAll(ReplaceAll(ReplaceAll(text, "&", <<"&", "a", "m", "p", ";">>),
                          "<", <<"&", "l", "t", ";">>),
               ">", <<"&", "g", "t", ";">>)

PresetNames == {"friendly", "professional", "concise", "helper"}

\* PRESET_BEHAVIORS is an object literal, so PRESET_BEHAVIORS[preset] also finds
\* what Object.prototype holds: under "__proto__" it is Object.prototype itself,
\* which is truthy (no fall back to friendly) and not a function, and calling
\* it throws a TypeError
behaviorThrows(preset) == preset = "__proto__"

\* PRESET_BEHAVIORS[preset] || PRESET_BEHAVIORS.friendly, applied to text
\* (a canned fragment is one token; the fragment of concise holds "->")
Friendly(text) == <<"friendly:">> \o text \o <<"\n", "friendly.">>

behavior(preset, text) ==
    CASE preset = "friendly" -> Friendly(text)
      [] preset = "professional" ->
            <<"professional:", "\n", "-", " ">> \o text \o <<"\n", "professional.">>
      [] preset = "concise" -> text \o <<" ", "-", ">", " ", "concise.">>
      [] preset = "helper" -> <<"helper:", "\"">> \o text \o <<"\"", "helper.">>
      [] OTHER -> Friendly(text)

WelcomeText == <<"welcome">>

\* --------------------------------------------------- the message list's nodes

\* createMessageEl: the bubble holds the escaped content
createMessageEl(role, content, src) ==
    [kind |-> "msg", role |-> role, bubble |-> escapeHtml(content), src |-> src]

createTypingEl(src) ==
    [kind |-> "typing", role |-> "bot", bubble |-> <<>>, src |-> src]

\* mutant of ReplaceWith: a node that is not in the list gets the new one appended
ReplaceWithOrAppend(list, node, new) ==
    IF \E i \in 1..Len(list) : list[i] = node
    THEN [i \in 1..Len(list) |-> IF list[i] = node THEN new ELSE list[i]]
    ELSE Append(list, new)

\* ChildNode.replaceWith: nothing happens when the node has no parent
ReplaceWith(list, node, new) ==
    [i \in 1..Len(list) |-> IF list[i] = node THEN new ELSE list[i]]

PMachine(st, el, rp, ls) ==
    [pstate |-> st, messagesEl |-> el, replies |-> rp, localStorage |-> ls]

\* try { localStorage.setItem(key, value) } catch {}
TrySetItem(ls, key, value) == IF storeMode = "ok" THEN [ls EXCEPT ![key] = value] ELSE ls

\* mutant of setTheme: the argument is persisted, not the normalised theme
setThemeStoreRaw(m, theme) ==
    LET isLight == theme = "light"
        m1 == [m EXCEPT !.pstate.theme = IF isLight THEN "light" ELSE "dark"]
    IN  [m1 EXCEPT !.localStorage = TrySetItem(@, "chat_theme", theme)]

setTheme(m, theme) ==
    LET isLight == theme = "light"
        m1 == [m EXCEPT !.pstate.theme = IF isLight THEN "light" ELSE "dark"]
    IN  [m1 EXCEPT !.localStorage = TrySetItem(@, "chat_theme", m1.pstate.theme)]

\* mutant of setPreset: setItem runs first and outside the try, so a failing
\* store ends the function before state.preset is assigned
setPresetStoreFirst(m, preset) ==
    IF storeMode = "ok"
    THEN [m EXCEPT !.pstate.preset = preset, !.localStorage["chat_preset"] = preset]
    ELSE m

setPreset(m, preset) ==
    LET m1 == [m EXCEPT !.pstate.preset = preset]
    IN  [m1 EXCEPT !.localStorage = TrySetItem(@, "chat_preset", m1.pstate.preset)]

\* mutant of resetChat: the whole state is put back to its defaults
resetChatAll(m) ==
    [m EXCEPT !.pstate = [preset |-> "friendly", theme |-> "dark", messages |-> <<>>],
              !.messagesEl = <<>>]

resetChat(m) == [m EXCEPT !.pstate.messages = <<>>, !.messagesEl = <<>>]

\* simulateBotReply up to its first await
simulateBotReply(m, userText, src) ==
    [m EXCEPT !.messagesEl = Append(@, createTypingEl(src)),
              !.replies = @ \cup {[typing |-> createTypingEl(src), userText |-> userText,
                                   src |-> src, pc |-> "delay", attached |-> TRUE,
                                   presetAtSubmit |-> m.pstate.preset]}]

\* the activation r past its first await; attached records whether its typing
\* node was still in the list when replaceWith ran, and presetAtSubmit the
\* preset at the time of the submit (history fields)
Resumed(r, list) ==
    [r EXCEPT !.pc = "scroll", !.attached = \E i \in 1..Len(list) : list[i] = r.typing]

\* mutant of simulateBotReplyResume: the behavior is the one of the preset
\* that was selected at the submit
simulateBotReplyResumeCaptured(m, r) ==
    IF behaviorThrows(r.presetAtSubmit) THEN [m EXCEPT !.replies = @ \ {r}]
    ELSE LET reply == behavior(r.presetAtSubmit, r.userText)
         IN  [m EXCEPT !.messagesEl =
                           ReplaceWith(@, r.typing, createMessageEl("bot", reply, r.src)),
                       !.replies = (@ \ {r}) \cup {Resumed(r, m.messagesEl)}]

\* simulateBotReply between its two awaits, for the activation r; when
\* behavior(userText) throws, the function ends there: its promise is rejected
\* (nobody handles it) and the typing node stays where it is
simulateBotReplyResume(m, r) ==
    IF behaviorThrows(m.pstate.preset) THEN [m EXCEPT !.replies = @ \ {r}]
    ELSE LET reply == behavior(m.pstate.preset, r.userText)
         IN  [m EXCEPT !.messagesEl =
                           ReplaceWith(@, r.typing, createMessageEl("bot", reply, r.src)),
                       !.replies = (@ \ {r}) \cup {Resumed(r, m.messagesEl)}]

\* simulateBotReply after its second await: scrollToBottom (display only), and
\* it ends
simulateBotReplyEnd(m, r) == [m EXCEPT !.replies = @ \ {r}]

\* mutant of onSubmit: the input tested for emptiness before it is trimmed
onSubmitNoTrim(m, raw, src) ==
    IF raw = <<>> THEN m
    ELSE simulateBotReply(
            [m EXCEPT !.messagesEl = Append(@, createMessageEl("user", Trim(raw), src))],
            Trim(raw), src)

\* the submit handler of #composer
onSubmit(m, raw, src) ==
    LET text == Trim(raw) IN
    IF text = <<>> THEN m
    ELSE simulateBotReply(
            [m EXCEPT !.messagesEl = Append(@, createMessageEl("user", text, src))],
            text, src)

\* boot's savedTheme and savedPreset: one try holds both reads
SavedTheme(ls) ==
    LET t == GetItem(ls, storeMode, "chat_theme")
    IN  IF t = Threw THEN "dark" ELSE OrDefault(t, "dark")

SavedPreset(ls) ==
    LET t == GetItem(ls, storeMode, "chat_theme")
        p == GetItem(ls, storeMode, "chat_preset")
    IN  IF t = Threw \/ p = Threw THEN "friendly" ELSE OrDefault(p, "friendly")

\* boot(): restore theme and preset, then the greeting
boot(m) ==
    LET m1 == setPreset(setTheme(m, SavedTheme(m.localStorage)),
                        SavedPreset(m.localStorage))
    IN  [m1 EXCEPT !.messagesEl = Append(@, createMessageEl("bot", WelcomeText, 0))]

\* ------------------------------------------------- the page and its events

\* what the user can type into #messageInput
PInputs == { <<>>, <<" ">>, <<"<", "&", " ">> }

\* what the store can hold under chat_theme and chat_preset when the page loads
StoredPairs ==
    { <<Absent, Absent>>, <<"light", "concise">>, <<"sepia", "pirate">>,
      <<Absent, "__proto__">> }

ChatIdle ==
    /\ state = [theme |-> "dark", history |-> <<>>, isBotTyping |-> FALSE]
    /\ chat = <<>>
    /\ timers = {}
    /\ page = "closed"
    /\ sent = <<>>
    /\ clicks = <<>>

\* the script of part_001 evaluated: lines 38-42 built state
InitPreset ==
    /\ storeMode \in {"ok", "nowrite", "noaccess"}
    /\ \E sp \in (IF storeMode /= "ok" THEN {<<"light", "concise">>}
                  ELSE StoredPairs) :
          localStorage = [k \in StoreKeys |->
                             IF k = "chat_theme" THEN sp[1]
                             ELSE IF k = "chat_preset" THEN sp[2] ELSE Absent]
    /\ pstate = [preset |-> "friendly", theme |-> "dark", messages |-> <<>>]
    /\ messagesEl = <<>>
    /\ replies = {}
    /\ ppage = "loading"
    /\ submits = 0
    /\ requested = [theme |-> Absent, preset |-> Absent]
    /\ ChatIdle
    /\ arg = <<>>

PHere == PMachine(pstate, messagesEl, replies, localStorage)

PBecomes(m) ==
    /\ pstate' = m.pstate
    /\ messagesEl' = m.messagesEl
    /\ replies' = m.replies
    /\ localStorage' = m.localStorage

\* DOMContentLoaded: initEvents, boot
Boot ==
    /\ ppage = "loading"
    /\ PBecomes(boot(PHere))
    /\ ppage' = "ready"
    /\ requested' = [theme |-> SavedTheme(localStorage),
                     preset |-> SavedPreset(localStorage)]
    /\ UNCHANGED <<storeMode, submits, chatVars, arg>>

\* submit of #composer (or Enter in #messageInput)
SubmitOf(raw) ==
    /\ ppage = "ready"
    /\ submits < MaxSubmits
    /\ PBecomes(onSubmit(PHere, raw, submits + 1))
    /\ submits' = submits + 1
    /\ UNCHANGED <<storeMode, ppage, requested, chatVars, arg>>

Submit == \E raw \in PInputs : SubmitOf(raw)

\* click on #newChatBtn
NewChat ==
    /\ ppage = "ready"
    /\ PBecomes(resetChat(PHere))
    /\ UNCHANGED <<storeMode, ppage, submits, requested, chatVars, arg>>

\* click on the .preset button of preset p
SelectPreset(p) ==
    /\ ppage = "ready"
    /\ PBecomes(setPreset(PHere, p))
    /\ requested' = [requested EXCEPT !.preset = p]
    /\ UNCHANGED <<storeMode, ppage, submits, chatVars, arg>>

\* the buttons the user clicks (professional differs from the others only in
\* its canned fragments)
PresetChoices == {"friendly", "concise", "helper"}

PresetClick == \E p \in PresetChoices : SelectPreset(p)

\* change of #themeSwitch to checked or unchecked
SwitchTheme(checked) ==
    /\ ppage = "ready"
    /\ PBecomes(setTheme(PHere, IF checked THEN "light" ELSE "dark"))
    /\ requested' = [requested EXCEPT !.theme = IF checked THEN "light" ELSE "dark"]
    /\ UNCHANGED <<storeMode, ppage, submits, chatVars, arg>>

ThemeSwitch == \E checked \in BOOLEAN : SwitchTheme(checked)

\* the random delay of a reply expires
ReplyTimer ==
    /\ \E r \in replies :
          /\ r.pc = "delay"
          /\ PBecomes(simulateBotReplyResume(PHere, r))
    /\ UNCHANGED <<storeMode, ppage, submits, requested, chatVars, arg>>

\* the 50 ms delay after a reply expires
ScrollTimer ==
    /\ \E r \in replies :
          /\ r.pc = "scroll"
          /\ PBecomes(simulateBotReplyEnd(PHere, r))
    /\ UNCHANGED <<storeMode, ppage, submits, requested, chatVars, arg>>

NextPreset ==
    Boot \/ Submit \/ NewChat \/ PresetClick \/ ThemeSwitch \/ ReplyTimer \/ ScrollTimer

SpecPreset == InitPreset /\ [][NextPreset]_vars

\* --------------------------------------------------------- either page
\* the browser opens one of the two pages
InitEither == Init \/ InitPreset

NextEither == Next \/ NextPreset

SpecEither == InitEither /\ [][NextEither]_vars

\* ======================================================== the harnesses
\* botReply applied to a text of every length up to MaxTextLen

FillerText(n) == [i \in 1..n |-> "a"]

InitDelay ==
    /\ storeMode = "ok"
    /\ localStorage = [k \in StoreKeys |-> Absent]
    /\ state = [theme |-> "dark", history |-> <<>>, isBotTyping |-> FALSE]
    /\ chat = <<>>
    /\ timers = {}
    /\ page = "ready"
    /\ sent = <<>>
    /\ clicks = <<>>
    /\ PresetIdle
    /\ arg \in {FillerText(n) : n \in 0..MaxTextLen}

CallBotReply ==
    /\ chat = <<>>
    /\ Becomes(botReply(Here, arg, Src("call", 1, 0), NoCont))
    /\ UNCHANGED <<storeMode, page, sent, clicks, presetVars, arg>>

NextDelay == CallBotReply \/ TimerFire

SpecDelay == InitDelay /\ [][NextDelay]_vars

\* createMessageEl applied to every text over EscAlphabet up to MaxEscLen

EscAlphabet == {"&", "<", ">", "l", "t", ";"}

TextsUpTo(n) == UNION {[1..k -> EscAlphabet] : k \in 0..n}

InitEscape ==
    /\ storeMode = "ok"
    /\ localStorage = [k \in StoreKeys |-> Absent]
    /\ pstate = [preset |-> "friendly", theme |-> "dark", messages |-> <<>>]
    /\ messagesEl = <<>>
    /\ replies = {}
    /\ ppage = "ready"
    /\ submits = 0
    /\ requested = [theme |-> Absent, preset |-> Absent]
    /\ ChatIdle
    /\ arg \in TextsUpTo(MaxEscLen)

Render ==
    /\ messagesEl = <<>>
    /\ \E role \in {"user", "bot"} :
          messagesEl' = <<createMessageEl(role, arg, 1)>>
    /\ UNCHANGED <<localStorage, storeMode, pstate, replies, ppage, submits,
                   requested, chatVars, arg>>

NextEscape == Render

SpecEscape == InitEscape /\ [][NextEscape]_vars

\* ================================================================ claims

IsTyping(e) == e.kind = "typing"
IsBotMessage(e, src) == e.kind = "message" /\ e.role = "bot" /\ e.src = src
IsUserMessage(e, src) == e.kind = "message" /\ e.role = "user" /\ e.src = src

SendSrc(n) == Src("send", n, 0)
NonEmpty(n) == Trim(sent[n].raw) /= <<>>

\* the reply cycles started for a request: still composing, or completed
CyclesOf(src) ==
    Cardinality({t \in timers : t.src = src})
        + Cardinality(Indices(chat, LAMBDA e : IsBotMessage(e, src)))

\* C1: in the chat-simulator, under every interleaving of sends, script clicks
\* and timer expirations, the chat list holds at most one typing indicator and
\* at most one reply cycle is composing.
C1_AtMostOneTyping ==
    /\ Cardinality(Indices(chat, IsTyping)) <= 1
    /\ Cardinality(timers) <= 1

\* a request arrived while a reply was being composed, and one indicator shows
C1_Witness ==
    /\ Cardinality(Indices(chat, IsTyping)) = 1
    /\ \E n \in 1..Len(sent) : NonEmpty(n) /\ ~sent[n].idle

\* C2: every send of a non-empty (trimmed) input appends exactly one user
\* message, with the trimmed text; it starts exactly one reply cycle if no reply
\* was being composed and none otherwise, and a dropped request never gets a
\* cycle or a bot message later.
C2_OneMessageOneCycle ==
    \A n \in 1..Len(sent) :
        NonEmpty(n) =>
            /\ Cardinality(Indices(chat, LAMBDA e : IsUserMessage(e, SendSrc(n)))) = 1
            /\ \E i \in 1..Len(chat) :
                  chat[i] = MessageEl("user", Trim(sent[n].raw), SendSrc(n))
            /\ CyclesOf(SendSrc(n)) = IF sent[n].idle THEN 1 ELSE 0

\* a send was dropped while a reply was composing, and that reply has completed
C2_Witness ==
    \E n \in 1..Len(sent) :
        /\ NonEmpty(n) /\ ~sent[n].idle
        /\ timers = {}
        /\ ~state.isBotTyping

\* the messages of the n-th script click, in the order of the chat list
ScriptMessages(n) ==
    SelectSeq(chat, LAMBDA e : e.kind = "message" /\ e.src.by = "script" /\ e.src.n = n)

ScriptTurns(n) ==
    LET steps == scripts(clicks[n])
    IN  [i \in 1..Len(steps) |->
            MessageEl(steps[i].role, steps[i].text, Src("script", n, i))]

PlaybackEnded(n) == ~\E t \in timers : t.src.by = "script" /\ t.src.n = n

IsPrefix(a, b) == Len(a) <= Len(b) /\ a = SubSeq(b, 1, Len(a))

\* C3: a script click appends the script's N turns, in order and with their
\* roles, whatever else is in progress: the messages of a playback are always a
\* prefix of its turns, all N once the playback has ended, and a bot turn being
\* composed shows its typing indicator.
C3_ScriptPlaysEveryTurn ==
    \A n \in 1..Len(clicks) :
        /\ IsPrefix(ScriptMessages(n), ScriptTurns(n))
        /\ PlaybackEnded(n) => ScriptMessages(n) = ScriptTurns(n)
        /\ \A t \in timers :
              (t.src.by = "script" /\ t.src.n = n) =>
                  \E i \in 1..Len(chat) : chat[i] = t.typingEl

PBotMessage(e, src) == e.kind = "msg" /\ e.role = "bot" /\ e.src = src

\* C4 as claimed: when the delay of a scheduled reply expires, its bot message
\* is in the message list, also after a reset.
C4_ReplyAlwaysAppended ==
    [][\A r \in replies :
          (r.pc = "delay" /\ r \notin replies') =>
              \E i \in 1..Len(messagesEl') : PBotMessage(messagesEl'[i], r.src)]_vars

\* C4 as amended: nothing cancels a scheduled delay; when it expires the bot
\* message (the current preset's transformation of the input, escaped) takes
\* the place of the typing indicator if that is still in the list, and
\* otherwise (the chat was reset) the list is left as it is; it is also left
\* as it is when producing the reply throws (C14).
C4_ReplyReplacesAttachedTyping ==
    [][\A r \in replies :
          r.pc = "delay" =>
              \/ r \in replies'
              \/ /\ behaviorThrows(pstate.preset)
                 /\ messagesEl' = messagesEl
                 /\ ~\E r2 \in replies' : r2.src = r.src
              \/ /\ ~behaviorThrows(pstate.preset)
                 /\ \E r2 \in replies' : r2.src = r.src /\ r2.pc = "scroll"
                 /\ Len(messagesEl') = Len(messagesEl)
                 /\ \A i \in 1..Len(messagesEl) :
                       messagesEl'[i] =
                           IF messagesEl[i] = r.typing
                           THEN [kind |-> "msg", role |-> "bot", src |-> r.src,
                                 bubble |-> escapeHtml(behavior(pstate.preset, r.userText))]
                           ELSE messagesEl[i]]_vars

\* a delay expired after a reset: no bot message of that reply is in the list
C4_Witness ==
    \E r \in replies :
        /\ r.pc = "scroll" /\ ~r.attached
        /\ ~\E i \in 1..Len(messagesEl) : PBotMessage(messagesEl[i], r.src)

\* C5: resetChat empties the history and the message list and leaves the
\* theme and the preset, in memory and in the store, as they were.
C5_ResetFrame ==
    [][NewChat =>
          /\ pstate'.messages = <<>>
          /\ messagesEl' = <<>>
          /\ pstate'.theme = pstate.theme
          /\ pstate'.preset = pstate.preset
          /\ localStorage' = localStorage]_vars

\* the chat was reset after a submit, with a theme and a preset chosen and stored
C5_Witness ==
    /\ ppage = "ready" /\ submits > 0
    /\ messagesEl = <<>> /\ pstate.messages = <<>>
    /\ pstate.theme = "light" /\ localStorage["chat_theme"] = "light"
    /\ pstate.preset = "helper" /\ localStorage["chat_preset"] = "helper"

\* C6: in the preset demo the message list holds at most one typing indicator.
C6_AtMostOneTypingPreset == Cardinality(Indices(messagesEl, IsTyping)) <= 1

\* C7: when a reply cycle completes, the bot message takes the position the
\* typing indicator held in the chat list.
C7_ReplacedInPlace ==
    [][\A t \in timers :
          t \notin timers' =>
              \E i \in 1..Len(chat) :
                  /\ chat[i] = t.typingEl
                  /\ i <= Len(chat')
                  /\ chat'[i] = MessageEl("bot", t.text, t.src)]_vars

HasPricing(raw) ==
    LET lower == ToLowerCase(Trim(raw))
    IN  Includes(lower, "raka") \/ Includes(lower, "thaorai")

C9_DelayClamped ==
    \A t \in timers :
        LET L == TextLength(t.text)
        IN  /\ t.delay = Max(600, Min(2000, 40 * L))
            /\ 600 <= t.delay /\ t.delay <= 2000

\* a reply of 14 characters is being composed: 560 ms is raised to 600
C9_Witness == \E t \in timers : TextLength(t.text) = 14 /\ t.delay = 600

\* each character escaped on its own, once
EscapeChar(c) ==
    CASE c = "&" -> <<"&", "a", "m", "p", ";">>
      [] c = "<" -> <<"&", "l", "t", ";">>
      [] c = ">" -> <<"&", "g", "t", ";">>
      [] OTHER -> <<c>>

EscapeOnce(text) == Flatten([i \in 1..Len(text) |-> EscapeChar(text[i])])

\* C10: the rendered bubble holds no raw "<" or ">", and it is the text with
\* each of "&", "<", ">" escaped exactly once.
C10_EscapedOnce ==
    \A i \in 1..Len(messagesEl) :
        /\ ~Includes(messagesEl[i].bubble, "<")
        /\ ~Includes(messagesEl[i].bubble, ">")
        /\ messagesEl[i].bubble = EscapeOnce(arg)

\* the text "&lt;" was rendered
C10_Witness ==
    /\ arg = <<"&", "l", "t", ";">>
    /\ Len(messagesEl) = 1
    /\ messagesEl[1].bubble = <<"&", "a", "m", "p", ";", "l", "t", ";">>

\* C11: in the preset demo a failure of the store is never propagated: boot
\* completes with the greeting, on the defaults dark / friendly when the store
\* cannot be read, and the theme and the preset in memory are always the ones
\* last requested, also when the store cannot be written.
C11_StoreFailureSwallowed ==
    /\ [](ppage = "ready" =>
             /\ pstate.preset = requested.preset
             /\ pstate.theme = IF requested.theme = "light" THEN "light" ELSE "dark")
    /\ [][Boot =>
             /\ ppage' = "ready"
             /\ messagesEl' = <<createMessageEl("bot", WelcomeText, 0)>>
             /\ storeMode = "noaccess" =>
                    pstate'.theme = "dark" /\ pstate'.preset = "friendly"]_vars

\* the store holds light / concise but cannot be accessed: boot ran on the
\* defaults, and then the theme and the preset were changed in memory only
C11_Witness ==
    /\ storeMode = "noaccess" /\ ppage = "ready"
    /\ requested = [theme |-> "light", preset |-> "helper"]
    /\ pstate.theme = "light" /\ pstate.preset = "helper"
    /\ localStorage["chat_preset"] = "concise"
    /\ \E i \in 1..Len(messagesEl) :
          messagesEl[i] = createMessageEl("bot", WelcomeText, 0)

\* C12: in the chat-simulator a failure of the store's write is never fatal:
\* once DOMContentLoaded has been handled the page is ready, with the greeting
\* in the chat list and the handlers installed.
C12_InitSurvivesStoreFailure ==
    page /= "loading" =>
        /\ page = "ready"
        /\ \E i \in 1..Len(chat) : chat[i] = MessageEl("bot", Greeting, Src("init", 0, 0))

\* C15: in the chat-simulator the theme in memory is light or dark in every
\* reachable state, whatever the store held under the key theme at page load.
C15_ThemeLightOrDark == state.theme \in {"light", "dark"}

\* C18: in the chat-simulator isBotTyping is true exactly when one typing
\* indicator is in the chat list, and false exactly when none is.
C18_FlagIffOneTyping ==
    /\ state.isBotTyping <=> Cardinality(Indices(chat, IsTyping)) = 1
    /\ ~state.isBotTyping <=> Cardinality(Indices(chat, IsTyping)) = 0

\* a reply was composed and delivered, and the next one is being composed
C18_Witness ==
    /\ state.isBotTyping
    /\ Cardinality(Indices(chat, IsTyping)) = 1
    /\ \E i \in 1..Len(chat) : chat[i].kind = "message" /\ chat[i].role = "bot"
                                  /\ chat[i].src /= Src("init", 0, 0)

\* C13: in both demos a send of an empty or whitespace-only input is ignored:
\* no message, no reply cycle, no typing indicator, and history, theme, preset
\* and the Composing flag (with the store) are left as they were.
C13_EmptyInputIgnored ==
    [][/\ (/\ Len(sent') = Len(sent) + 1
           /\ Trim(sent'[Len(sent')].raw) = <<>>)
              => UNCHANGED <<state, chat, timers, localStorage>>
       /\ \A raw \in PInputs :
             (Trim(raw) = <<>> /\ SubmitOf(raw))
                => UNCHANGED <<pstate, messagesEl, replies, localStorage>>]_vars

\* a whitespace-only input was sent while a reply was being composed: the list
\* holds the greeting, the one user message and the indicator
C13_Witness ==
    /\ Len(sent) = 2
    /\ sent[1].raw = <<"sawang">> /\ sent[2].raw = <<" ">> /\ ~sent[2].idle
    /\ Len(chat) = 3 /\ IsTyping(chat[3])
    /\ state.isBotTyping /\ Cardinality(timers) = 1

\* C16: with a working store, once init or boot has run the persisted theme is
\* the theme in memory, and in the preset demo the persisted preset is the
\* preset in memory.
C16_SaveOnChange ==
    storeMode = "ok" =>
        /\ page = "ready" => localStorage["theme"] = state.theme
        /\ ppage = "ready" =>
              /\ localStorage["chat_theme"] = pstate.theme
              /\ localStorage["chat_preset"] = pstate.preset

\* theme and preset were changed after boot, and the store followed
C16_Witness ==
    /\ storeMode = "ok" /\ ppage = "ready"
    /\ requested = [theme |-> "light", preset |-> "helper"]
    /\ localStorage["chat_theme"] = "light" /\ localStorage["chat_preset"] = "helper"
    /\ submits > 0

Composing(src) == \E t \in timers : t.src = src

Delivered(src) ==
    /\ ~Composing(src)
    /\ \A i \in 1..Len(chat) : chat[i] /= TypingEl(src)
    /\ \E i \in 1..Len(chat) : IsBotMessage(chat[i], src)

Idle ==
    /\ ~state.isBotTyping
    /\ timers = {}
    /\ \A i \in 1..Len(chat) : ~IsTyping(chat[i])

\* C17: in the chat-simulator, given that a running reply timer eventually
\* fires, every reply cycle that is composing ends: its typing indicator is
\* removed and its bot message appended, and isBotTyping becomes false, so the
\* engine never stays in Composing.
C17_EveryCycleEnds ==
    /\ (state.isBotTyping \/ timers /= {}) ~> Idle
    /\ [][\A t \in timers : t \notin timers' => Delivered(t.src)']_vars

\* a cycle ended and a later send started a new one
C17_Witness ==
    /\ Len(sent) = 2 /\ sent[2].idle
    /\ Delivered(SendSrc(1))
    /\ Composing(SendSrc(2))

\* C19: in the chat-simulator a send with a theme keyword (and no pricing or
\* help keyword) that arrives while a reply is being composed, so that its
\* reply is dropped, leaves the theme in memory and in the store unchanged.
C19_DroppedThemeSendKeepsTheme ==
    \A n \in 1..Len(sent) :
        (Category(ToLowerCase(Trim(sent[n].raw))) = "theme" /\ ~sent[n].idle)
            => sent[n].after = sent[n].before

\* C19, as the code has it: every send with a theme keyword (and no pricing or
\* help keyword) toggles the theme in memory and in the store, whether or not
\* its reply is dropped.
C19_ThemeSendAlwaysToggles ==
    \A n \in 1..Len(sent) :
        Category(ToLowerCase(Trim(sent[n].raw))) = "theme" =>
            /\ sent[n].after.theme =
                  IF sent[n].before.theme = "dark" THEN "light" ELSE "dark"
            /\ sent[n].after.stored = sent[n].after.theme

\* a theme keyword was sent while a reply was being composed: no reply cycle
\* for it, and the theme changed
C19_Witness ==
    \E n \in 1..Len(sent) :
        /\ Category(ToLowerCase(Trim(sent[n].raw))) = "theme"
        /\ ~sent[n].idle
        /\ CyclesOf(SendSrc(n)) = 0
        /\ sent[n].after.theme /= sent[n].before.theme

\* C14: in the preset demo, when the preset in memory is not one of the defined
\* presets, a reply whose delay expires is the friendly transformation of its
\* input, and no error occurs (the reply function runs on to its second await).
C14_UnknownPresetRepliesFriendly ==
    [][\A r \in replies :
          (r.pc = "delay" /\ r \notin replies' /\ pstate.preset \notin PresetNames) =>
              /\ \E r2 \in replies' : r2.src = r.src /\ r2.pc = "scroll"
              /\ \A i \in 1..Len(messagesEl) :
                    messagesEl[i] = r.typing =>
                        messagesEl'[i] = createMessageEl("bot", Friendly(r.userText), r.src)]_vars

\* C20: in the preset demo the bot message of a reply is the transformation of
\* its input by the preset that was selected when the input was submitted.
C20_ReplyUsesPresetAtSubmit ==
    [][\A r \in replies :
          (r.pc = "delay" /\ r \notin replies') =>
              \A i \in 1..Len(messagesEl') :
                  PBotMessage(messagesEl'[i], r.src) =>
                      messagesEl'[i].bubble =
                          escapeHtml(behavior(r.presetAtSubmit, r.userText))]_vars

\* C20, as the code has it: the bot message of a reply is the transformation of
\* its input by the preset that is selected when the reply's delay expires,
\* whatever preset was selected at the submit.
C20_ReplyUsesPresetAtExpiry ==
    [][\A r \in replies :
          (r.pc = "delay" /\ r \notin replies') =>
              \A i \in 1..Len(messagesEl') :
                  PBotMessage(messagesEl'[i], r.src) =>
                      messagesEl'[i].bubble =
                          escapeHtml(behavior(pstate.preset, r.userText))]_vars

\* a preset was selected while a reply was composing: the reply in the list is
\* the new preset's, not the one of the preset selected at the submit
C20_Witness ==
    \E r \in replies :
        /\ r.pc = "scroll" /\ r.attached
        /\ r.presetAtSubmit = "friendly" /\ pstate.preset = "concise"
        /\ \E i \in 1..Len(messagesEl) :
              /\ PBotMessage(messagesEl[i], r.src)
              /\ messagesEl[i].bubble = escapeHtml(behavior("concise", r.userText))
              /\ messagesEl[i].bubble /= escapeHtml(behavior("friendly", r.userText))

====
